---- MODULE Spec2Model ----
(***************************************************************************)
(* Model of the commented-JSON round-trip engine of json-editor-buddy      *)
(* (lib/jsonParser: parseJsonWithComments, serializeWithComments and the   *)
(* key heuristics).  Texts are TLA+ strings; a character is a string of    *)
(* length one.  JavaScript indexes from 0, the model from 1.               *)
(***************************************************************************)
EXTENDS Integers, Sequences, FiniteSets, TLC

VARIABLES
    mode,            \* which function is being exercised, and how far it got
    text,            \* parseJsonWithComments: the argument
    lines,           \* parseJsonWithComments: text.split('\n')
    idx,             \* section scan: index of the next line of the for loop
    currentSection,  \* section scan: let currentSection
    sectionKeys,     \* section scan: const sectionKeys (the accumulator)
    sections,        \* section scan: const sections (Map, insertion ordered)
    parsed,          \* what parseJsonWithComments returned or threw
    originalData,    \* the value map before any leaf value was edited
    data,            \* serializeWithComments: the data argument
    secIndex,        \* serializeWithComments: the sections argument
    output,          \* what serializeWithComments returned
    reparsed,        \* parseJsonWithComments(output)
    keyArg,          \* formatKeyName, isChildSetting: the key argument
    allKeysArg,      \* isChildSetting: the allKeys argument
    helperResult,    \* what formatKeyName or isChildSetting returned
    fileName,        \* BBConfigEditor: the fileName state
    error,           \* BBConfigEditor: the error state, Null or JStr(message)
    expandedSections, \* BBConfigEditor: the expandedSections state
    searchQuery,     \* BBConfigEditor: the searchQuery state
    readers          \* BBConfigEditor: the files being read, onload pending

vars == <<mode, text, lines, idx, currentSection, sectionKeys, sections,
          parsed, originalData, data, secIndex, output, reparsed,
          keyArg, allKeysArg, helperResult,
          fileName, error, expandedSections, searchQuery, readers>>

helperVars == <<keyArg, allKeysArg, helperResult>>
editorVars == <<fileName, error, expandedSections, searchQuery, readers>>

scanVars == <<lines, idx, currentSection, sectionKeys, sections>>
serVars == <<originalData, data, secIndex, output, reparsed>>

None == "<none>"

\* a variable of a function that has not run yet
NoOutcome == [kind |-> "none"]
NoData == [t |-> "undefined"]

\* null, as the state of a useState<... | null>(null)
Null == [t |-> "null"]

-----------------------------------------------------------------------------
(* Strings.                                                                *)

CharAt(s, i) == SubSeq(s, i, i)

\* s.slice(i - 1): the characters from position i on
From(s, i) == SubSeq(s, i, Len(s))

StartsWith(s, p) == Len(s) >= Len(p) /\ SubSeq(s, 1, Len(p)) = p

EndsWith(s, p) == Len(s) >= Len(p) /\ SubSeq(s, Len(s) - Len(p) + 1, Len(s)) = p

\* the characters `\s` and String.prototype.trim treat as blank
WhiteSpace == {" ", "\t", "\n", "\r", "\f"}

UpperCase == {"A", "B", "C", "D", "E", "F", "G", "H", "I", "J", "K", "L", "M",
              "N", "O", "P", "Q", "R", "S", "T", "U", "V", "W", "X", "Y", "Z"}

LowerCase == {"a", "b", "c", "d", "e", "f", "g", "h", "i", "j", "k", "l", "m",
              "n", "o", "p", "q", "r", "s", "t", "u", "v", "w", "x", "y", "z"}

Digits == <<"0", "1", "2", "3", "4", "5", "6", "7", "8", "9">>

\* the first position >= i of s whose character is outside class (Len(s)+1 if none)
RECURSIVE SkipWhile(_, _, _)
SkipWhile(s, i, class) ==
    IF i <= Len(s) /\ CharAt(s, i) \in class THEN SkipWhile(s, i + 1, class) ELSE i

\* the last position <= i of s whose character is outside class (0 if none)
RECURSIVE SkipBack(_, _, _)
SkipBack(s, i, class) ==
    IF i >= 1 /\ CharAt(s, i) \in class THEN SkipBack(s, i - 1, class) ELSE i

\* String.prototype.trim
Trim(s) == SubSeq(s, SkipWhile(s, 1, WhiteSpace), SkipBack(s, Len(s), WhiteSpace))

\* the first position >= i of s holding character c (0 if none)
RECURSIVE IndexOf(_, _, _)
IndexOf(s, c, i) ==
    IF i > Len(s) THEN 0
    ELSE IF CharAt(s, i) = c THEN i
    ELSE IndexOf(s, c, i + 1)

\* String.prototype.split(sep) for a one-character separator
RECURSIVE Split(_, _)
Split(s, sep) ==
    LET p == IndexOf(s, sep, 1)
    IN  IF p = 0 THEN <<s>>
        ELSE <<SubSeq(s, 1, p - 1)>> \o Split(From(s, p + 1), sep)

\* Array.prototype.join(sep)
RECURSIVE Join(_, _)
Join(ls, sep) ==
    IF Len(ls) = 0 THEN ""
    ELSE IF Len(ls) = 1 THEN ls[1]
    ELSE ls[1] \o sep \o Join(Tail(ls), sep)

-----------------------------------------------------------------------------
(* Map<string, string[]>: a sequence of entries in insertion order.        *)

EmptyMap == <<>>

MapHas(m, k) == \E i \in 1..Len(m) : m[i].name = k

MapGet(m, k) == m[CHOOSE i \in 1..Len(m) : m[i].name = k].keys

MapNames(m) == [i \in 1..Len(m) |-> m[i].name]

\* a set() that appends instead of replacing the entry's list
MapSetMerging(m, k, v) ==
    IF MapHas(m, k)
    THEN [i \in 1..Len(m) |-> IF m[i].name = k
                              THEN [name |-> k, keys |-> m[i].keys \o v]
                              ELSE m[i]]
    ELSE Append(m, [name |-> k, keys |-> v])

\* Map.prototype.set: an existing key keeps its place, a new one goes last
MapSet(m, k, v) ==
    IF MapHas(m, k)
    THEN [i \in 1..Len(m) |-> IF m[i].name = k
                              THEN [name |-> k, keys |-> v]
                              ELSE m[i]]
    ELSE Append(m, [name |-> k, keys |-> v])

-----------------------------------------------------------------------------
(* parseJsonWithComments: the section scan.                                *)

Letters == UpperCase \cup LowerCase

\* a header pattern whose name may be in lower case: /^\/\/\s*([a-zA-Z]+(?:...)?)\s*$/
SectionMatchAnyCase(t) ==
    IF ~StartsWith(t, "//") THEN None
    ELSE LET a == SkipWhile(t, 3, WhiteSpace)
             b == SkipWhile(t, a, Letters)
             c == SkipWhile(t, b, WhiteSpace)
             e == SkipWhile(t, c + 1, Letters \cup WhiteSpace)
         IN  IF b = a THEN None
             ELSE IF c > Len(t) THEN SubSeq(t, a, b - 1)
             ELSE IF CharAt(t, c) = "-" /\ e > c + 1 /\ e > Len(t)
                  THEN SubSeq(t, a, Len(t))
             ELSE None

\* trimmed.match(/^\/\/\s*([A-Z]+(?:\s*-\s*[a-zA-Z\s]+)?)\s*$/): group 1, or None.
\* a: after `//\s*`; b: after `[A-Z]+`; c: after the `\s*` that follows;
\* e: after the greedy `[a-zA-Z\s]+` that follows a `-` at c.
SectionMatch(t) ==
    IF ~StartsWith(t, "//") THEN None
    ELSE LET a == SkipWhile(t, 3, WhiteSpace)
             b == SkipWhile(t, a, UpperCase)
             c == SkipWhile(t, b, WhiteSpace)
             e == SkipWhile(t, c + 1, Letters \cup WhiteSpace)
         IN  IF b = a THEN None
             ELSE IF c > Len(t) THEN SubSeq(t, a, b - 1)
             ELSE IF CharAt(t, c) = "-" /\ e > c + 1 /\ e > Len(t)
                  THEN SubSeq(t, a, Len(t))
             ELSE None

\* a key pattern that also lets blanks stand between the closing quote and the colon
KeyMatchLoose(t) ==
    IF ~StartsWith(t, "\"$") THEN None
    ELSE LET q == IndexOf(t, "\"", 3)
             c == SkipWhile(t, q + 1, WhiteSpace)
         IN  IF q > 3 /\ c <= Len(t) /\ CharAt(t, c) = ":"
             THEN SubSeq(t, 3, q - 1)
             ELSE None

\* trimmed.match(/^"\$([^"]+)":/): group 1, or None
KeyMatch(t) ==
    IF ~StartsWith(t, "\"$") THEN None
    ELSE LET q == IndexOf(t, "\"", 3)
         IN  IF q > 3 /\ q < Len(t) /\ CharAt(t, q + 1) = ":"
             THEN SubSeq(t, 3, q - 1)
             ELSE None

\* a scan whose first section has no name
ScanStartUnnamed == [currentSection |-> "", sectionKeys |-> <<>>, sections |-> EmptyMap]

\* lines 4-6: the variables of the scan before its first line
ScanStart == [currentSection |-> "General", sectionKeys |-> <<>>, sections |-> EmptyMap]

\* a header that saves the section it closes even when no key was gathered
ScanHeaderEager(st, name) ==
    [currentSection |-> name,
     sectionKeys    |-> <<>>,
     sections       |-> MapSet(st.sections, st.currentSection, st.sectionKeys)]

\* a header that saves the gathered keys and goes on gathering into the same list
ScanHeaderKeeping(st, name) ==
    [currentSection |-> name,
     sectionKeys    |-> st.sectionKeys,
     sections       |-> IF Len(st.sectionKeys) > 0
                        THEN MapSet(st.sections, st.currentSection, st.sectionKeys)
                        ELSE st.sections]

\* the body of `if (sectionMatch)`: save the gathered keys, start the next section
ScanHeader(st, name) ==
    [currentSection |-> name,
     sectionKeys    |-> <<>>,
     sections       |-> IF Len(st.sectionKeys) > 0
                        THEN MapSet(st.sections, st.currentSection, st.sectionKeys)
                        ELSE st.sections]

\* a push of the captured group alone, without its sigil
ScanKeyBare(st, key) == [st EXCEPT !.sectionKeys = Append(@, key)]

\* the body of `if (keyMatch)`
ScanKey(st, key) == [st EXCEPT !.sectionKeys = Append(@, "$" \o key)]

\* one iteration of `for (const line of lines)`
ScanLine(st, line) ==
    LET trimmed == Trim(line)
        sectionMatch == SectionMatch(trimmed)
        keyMatch == KeyMatch(trimmed)
    IN  IF sectionMatch # None THEN ScanHeader(st, Trim(sectionMatch))
        ELSE IF keyMatch # None THEN ScanKey(st, keyMatch)
        ELSE st

\* a last save that stores the section whatever it gathered
ScanSaveAlways(st) == MapSet(st.sections, st.currentSection, st.sectionKeys)

\* "Save last section"
ScanSave(st) ==
    IF Len(st.sectionKeys) > 0
    THEN MapSet(st.sections, st.currentSection, st.sectionKeys)
    ELSE st.sections

RECURSIVE ScanFrom(_, _, _)
ScanFrom(st, ls, i) ==
    IF i > Len(ls) THEN st ELSE ScanFrom(ScanLine(st, ls[i]), ls, i + 1)

\* lines 4-33: the section index of a text
ScanSections(ls) == ScanSave(ScanFrom(ScanStart, ls, 1))

-----------------------------------------------------------------------------
(* parseJsonWithComments: comment removal.                                 *)

\* the `while (i < line.length)` loop, entered at position i
RECURSIVE StripFrom(_, _, _, _)
StripFrom(line, i, inString, result) ==
    IF i > Len(line) THEN result
    ELSE LET char == CharAt(line, i)
             nextChar == IF i < Len(line) THEN CharAt(line, i + 1) ELSE None
         IN  IF char = "\"" /\ (i = 1 \/ CharAt(line, i - 1) # "\\")
             THEN StripFrom(line, i + 1, ~inString, result \o char)
             ELSE IF ~inString /\ char = "/" /\ nextChar = "/" THEN result
             ELSE StripFrom(line, i + 1, inString, result \o char)

\* a callback whose flag starts set
StripLineInString(line) == StripFrom(line, 1, TRUE, "")

\* the callback of lines.map: one line without its comment
StripLine(line) == StripFrom(line, 1, FALSE, "")

\* cleanedLines.join('\n')
CleanedJson(ls) == Join([i \in 1..Len(ls) |-> StripLine(ls[i])], "\n")

-----------------------------------------------------------------------------
(* JSON values, JSON.parse and JSON.stringify (the platform's, modelled by *)
(* what they do).  Numbers are integers: no text of the model writes a     *)
(* fraction or an exponent, and no key is an integer index.                *)

JStr(s) == [t |-> "string", s |-> s]
JNum(n) == [t |-> "number", n |-> n]
JBool(b) == [t |-> "boolean", b |-> b]
JNull == [t |-> "null"]
JArr(items) == [t |-> "array", items |-> items]
JObj(members) == [t |-> "object", members |-> members]

Fail(msg) == [ok |-> FALSE, message |-> msg]
Got(v, p) == [ok |-> TRUE, value |-> v, pos |-> p]

ObjHas(ms, k) == \E i \in 1..Len(ms) : ms[i].key = k

ObjGet(ms, k) == ms[CHOOSE i \in 1..Len(ms) : ms[i].key = k].value

ObjKeys(ms) == {ms[i].key : i \in 1..Len(ms)}

\* obj[k] = v: an own property keeps its place, a new one goes last
ObjSet(ms, k, v) ==
    IF ObjHas(ms, k)
    THEN [i \in 1..Len(ms) |-> IF ms[i].key = k THEN [key |-> k, value |-> v] ELSE ms[i]]
    ELSE Append(ms, [key |-> k, value |-> v])

JsonWs == {" ", "\t", "\n", "\r"}

DigitSet == {Digits[i] : i \in 1..10}

DigitValue(c) == (CHOOSE i \in 1..10 : Digits[i] = c) - 1

\* the value of the digits of s from position i, given the value acc read so far
RECURSIVE ParseDigits(_, _, _)
ParseDigits(s, i, acc) ==
    IF i <= Len(s) /\ CharAt(s, i) \in DigitSet
    THEN ParseDigits(s, i + 1, 10 * acc + DigitValue(CharAt(s, i)))
    ELSE Got(acc, i)

\* -?(0|[1-9][0-9]*) at position i
ParseNumber(s, i) ==
    LET neg == CharAt(s, i) = "-"
        d == IF neg THEN i + 1 ELSE i
    IN  IF d > Len(s) \/ CharAt(s, d) \notin DigitSet THEN Fail("No number after minus sign")
        ELSE LET r == IF CharAt(s, d) = "0" THEN Got(0, d + 1) ELSE ParseDigits(s, d, 0)
             IN  Got(JNum(IF neg THEN 0 - r.value ELSE r.value), r.pos)

Unescape(c) ==
    CASE c = "n" -> "\n"
      [] c = "t" -> "\t"
      [] c = "r" -> "\r"
      [] c = "f" -> "\f"
      [] OTHER -> c

\* the string literal whose opening quote is just before position i
RECURSIVE ParseString(_, _, _)
ParseString(s, i, acc) ==
    IF i > Len(s) THEN Fail("Unterminated string in JSON")
    ELSE LET c == CharAt(s, i)
         IN  IF c = "\"" THEN Got(acc, i + 1)
             ELSE IF c = "\\"
                  THEN IF i < Len(s) /\ CharAt(s, i + 1) \in {"\"", "\\", "/", "n", "t", "r", "f"}
                       THEN ParseString(s, i + 2, acc \o Unescape(CharAt(s, i + 1)))
                       ELSE Fail("Bad escaped character in JSON")
             ELSE IF c \in {"\n", "\t", "\r", "\f"}
                  THEN Fail("Bad control character in string literal in JSON")
             ELSE ParseString(s, i + 1, acc \o c)

RECURSIVE ParseValue(_, _)
RECURSIVE ParseElements(_, _, _)
RECURSIVE ParseMembers(_, _, _)

\* the elements of an array after `[` or `,`, up to and including `]`
ParseElements(s, i, acc) ==
    LET r == ParseValue(s, i)
    IN  IF ~r.ok THEN r
        ELSE LET p == SkipWhile(s, r.pos, JsonWs)
             IN  IF p > Len(s) THEN Fail("Unexpected end of JSON input")
                 ELSE IF CharAt(s, p) = "," THEN ParseElements(s, p + 1, Append(acc, r.value))
                 ELSE IF CharAt(s, p) = "]" THEN Got(JArr(Append(acc, r.value)), p + 1)
                 ELSE Fail("Expected ',' or ']' after array element")

\* the members of an object after `{` or `,`, up to and including `}`
ParseMembers(s, i, acc) ==
    LET k == SkipWhile(s, i, JsonWs)
    IN  IF k > Len(s) THEN Fail("Unexpected end of JSON input")
        ELSE IF CharAt(s, k) # "\"" THEN Fail("Expected double-quoted property name")
        ELSE LET key == ParseString(s, k + 1, "")
             IN  IF ~key.ok THEN key
                 ELSE LET c == SkipWhile(s, key.pos, JsonWs)
                      IN  IF c > Len(s) THEN Fail("Unexpected end of JSON input")
                          ELSE IF CharAt(s, c) # ":" THEN Fail("Expected ':' after property name")
                          ELSE LET r == ParseValue(s, c + 1)
                               IN  IF ~r.ok THEN r
                                   ELSE LET p == SkipWhile(s, r.pos, JsonWs)
                                            ms == ObjSet(acc, key.value, r.value)
                                        IN  IF p > Len(s) THEN Fail("Unexpected end of JSON input")
                                            ELSE IF CharAt(s, p) = "," THEN ParseMembers(s, p + 1, ms)
                                            ELSE IF CharAt(s, p) = "}" THEN Got(JObj(ms), p + 1)
                                            ELSE Fail("Expected ',' or '}' after property value")

ParseValue(s, i) ==
    LET p == SkipWhile(s, i, JsonWs)
        c == IF p <= Len(s) THEN CharAt(s, p) ELSE None
    IN  IF p > Len(s) THEN Fail("Unexpected end of JSON input")
        ELSE IF c = "{"
             THEN LET q == SkipWhile(s, p + 1, JsonWs)
                  IN  IF q <= Len(s) /\ CharAt(s, q) = "}" THEN Got(JObj(<<>>), q + 1)
                      ELSE ParseMembers(s, p + 1, <<>>)
        ELSE IF c = "["
             THEN LET q == SkipWhile(s, p + 1, JsonWs)
                  IN  IF q <= Len(s) /\ CharAt(s, q) = "]" THEN Got(JArr(<<>>), q + 1)
                      ELSE ParseElements(s, p + 1, <<>>)
        ELSE IF c = "\""
             THEN LET r == ParseString(s, p + 1, "")
                  IN  IF r.ok THEN Got(JStr(r.value), r.pos) ELSE r
        ELSE IF c = "-" \/ c \in DigitSet THEN ParseNumber(s, p)
        ELSE IF StartsWith(From(s, p), "true") THEN Got(JBool(TRUE), p + 4)
        ELSE IF StartsWith(From(s, p), "false") THEN Got(JBool(FALSE), p + 5)
        ELSE IF StartsWith(From(s, p), "null") THEN Got(JNull, p + 4)
        ELSE Fail("Unexpected token in JSON")

\* JSON.parse(s): [ok |-> TRUE, value] or [ok |-> FALSE, message]
JSONParse(s) ==
    LET r == ParseValue(s, 1)
    IN  IF ~r.ok THEN r
        ELSE IF SkipWhile(s, r.pos, JsonWs) <= Len(s)
             THEN Fail("Unexpected non-whitespace character after JSON")
        ELSE [ok |-> TRUE, value |-> r.value]

\* String(n) for an integer n >= 0
RECURSIVE FormatNat(_)
FormatNat(n) == IF n < 10 THEN Digits[n + 1] ELSE FormatNat(n \div 10) \o Digits[(n % 10) + 1]

FormatInt(n) == IF n < 0 THEN "-" \o FormatNat(0 - n) ELSE FormatNat(n)

EscapeChar(c) ==
    CASE c = "\"" -> "\\\""
      [] c = "\\" -> "\\\\"
      [] c = "\n" -> "\\n"
      [] c = "\t" -> "\\t"
      [] c = "\r" -> "\\r"
      [] c = "\f" -> "\\f"
      [] OTHER -> c

RECURSIVE EscapeFrom(_, _)
EscapeFrom(s, i) == IF i > Len(s) THEN "" ELSE EscapeChar(CharAt(s, i)) \o EscapeFrom(s, i + 1)

\* JSON.stringify of a string
Quote(s) == "\"" \o EscapeFrom(s, 1) \o "\""

\* JSON.stringify(v), compact
RECURSIVE Stringify(_)
Stringify(v) ==
    CASE v.t = "string"  -> Quote(v.s)
      [] v.t = "number"  -> FormatInt(v.n)
      [] v.t = "boolean" -> IF v.b THEN "true" ELSE "false"
      [] v.t = "null"    -> "null"
      [] v.t = "array"   ->
            "[" \o Join([i \in 1..Len(v.items) |-> Stringify(v.items[i])], ",") \o "]"
      [] v.t = "object"  ->
            "{" \o Join([i \in 1..Len(v.members) |->
                            Quote(v.members[i].key) \o ":" \o Stringify(v.members[i].value)],
                        ",") \o "}"

\* String(v), what a template literal `${v}` substitutes
RECURSIVE StringOf(_)
StringOf(v) ==
    CASE v.t = "string"  -> v.s
      [] v.t = "number"  -> FormatInt(v.n)
      [] v.t = "boolean" -> IF v.b THEN "true" ELSE "false"
      [] v.t = "null"    -> "null"
      [] v.t = "array"   ->
            Join([i \in 1..Len(v.items) |->
                     IF v.items[i].t = "null" THEN "" ELSE StringOf(v.items[i])], ",")
      [] v.t = "object"  -> "[object Object]"

\* deep equality of two values: members compared by key, whatever their order
RECURSIVE DeepEqual(_, _)
DeepEqual(a, b) ==
    IF a.t # b.t THEN FALSE
    ELSE CASE a.t = "array" ->
                /\ Len(a.items) = Len(b.items)
                /\ \A i \in 1..Len(a.items) : DeepEqual(a.items[i], b.items[i])
           [] a.t = "object" ->
                /\ ObjKeys(a.members) = ObjKeys(b.members)
                /\ \A k \in ObjKeys(a.members) :
                      DeepEqual(ObjGet(a.members, k), ObjGet(b.members, k))
           [] OTHER -> a = b

-----------------------------------------------------------------------------
(* parseJsonWithComments.                                                  *)

ErrorPrefix == "Invalid JSON format: "

Returned(d, s) == [kind |-> "returned", data |-> d, sections |-> s]

Thrown(msg) == [kind |-> "thrown", message |-> msg]

\* a catch block that hands back the sections it had scanned
ParseOutcomePartial(r, secs) ==
    IF r.ok THEN Returned(r.value, secs)
    ELSE [kind |-> "thrown", message |-> ErrorPrefix \o r.message, sections |-> secs]

\* lines 67-72: return { data, sections }, or throw the prefixed message
ParseOutcome(r, secs) ==
    IF r.ok THEN Returned(r.value, secs) ELSE Thrown(ErrorPrefix \o r.message)

parseJsonWithComments(txt) ==
    LET ls == Split(txt, "\n")
    IN  ParseOutcome(JSONParse(CleanedJson(ls)), ScanSections(ls))

-----------------------------------------------------------------------------
(* serializeWithComments.                                                  *)

\* s.replace(c, ''): s without the first occurrence of character c
RemoveFirst(s, c) ==
    LET p == IndexOf(s, c, 1)
    IN  IF p = 0 THEN s ELSE SubSeq(s, 1, p - 1) \o From(s, p + 1)

CategorySuffixes == {"hud", "counter", "timer", "list", "menu", "doll", "slots"}

\* a classification that takes three segments for a parent
isSubSettingDeeper(key) ==
    LET keyParts == Split(RemoveFirst(key, "$"), "_")
    IN  \/ Len(keyParts) > 3
        \/ Len(keyParts) = 2 /\ keyParts[2] \notin CategorySuffixes

\* a classification by depth alone, without the two-segment case
isSubSettingDeepOnly(key) ==
    LET keyParts == Split(RemoveFirst(key, "$"), "_")
    IN  Len(keyParts) > 2

\* lines 103-104
isSubSetting(key) ==
    LET keyParts == Split(RemoveFirst(key, "$"), "_")
    IN  \/ Len(keyParts) > 2
        \/ Len(keyParts) = 2 /\ keyParts[2] \notin CategorySuffixes

\* lines 108-120: the text of a value
EncodeValue(value) ==
    IF value.t = "array"
    THEN IF Len(value.items) = 0 THEN "[]" ELSE Stringify(value)
    ELSE IF value.t = "object" THEN Stringify(value)
    ELSE IF value.t = "string" THEN "\"" \o value.s \o "\""
    ELSE StringOf(value)

\* the own properties of data (an array has no `$` property)
Props(d) == IF d.t = "object" THEN d.members ELSE <<>>

\* a callback that writes a key data lacks, as null
SerKeyOfAbsent(st, d, secs, name, keys, i) ==
    LET key == keys[i]
    IN  IF key \in st.processedKeys THEN st
        ELSE LET seen == [st EXCEPT !.processedKeys = @ \cup {key}]
                 value == IF ObjHas(Props(d), key) THEN ObjGet(Props(d), key) ELSE JNull
                 isLast == i = Len(keys) /\ secs[Len(secs)].name = name
                 comma == IF isLast THEN "" ELSE ","
                 indent == IF isSubSetting(key) THEN "    " ELSE "  "
             IN  [seen EXCEPT !.lines =
                     Append(@, indent \o "\"" \o key \o "\": "
                               \o EncodeValue(value) \o comma)]

\* a callback that does not look a key up in processedKeys
SerKeyRepeating(st, d, secs, name, keys, i) ==
    LET key == keys[i]
    IN  IF ~ObjHas(Props(d), key) THEN st
        ELSE LET value == ObjGet(Props(d), key)
                 isLast == i = Len(keys) /\ secs[Len(secs)].name = name
                 comma == IF isLast THEN "" ELSE ","
                 indent == IF isSubSetting(key) THEN "    " ELSE "  "
             IN  [st EXCEPT !.lines =
                     Append(@, indent \o "\"" \o key \o "\": "
                               \o EncodeValue(value) \o comma)]

\* the callback of keys.forEach for keys[i] of section `name`;
\* st = [lines, processedKeys]
SerKey(st, d, secs, name, keys, i) ==
    LET key == keys[i]
    IN  IF key \in st.processedKeys THEN st
        ELSE LET seen == [st EXCEPT !.processedKeys = @ \cup {key}]
             IN  IF ~ObjHas(Props(d), key) THEN seen
                 ELSE LET value == ObjGet(Props(d), key)
                          isLast == i = Len(keys) /\ secs[Len(secs)].name = name
                          comma == IF isLast THEN "" ELSE ","
                          indent == IF isSubSetting(key) THEN "    " ELSE "  "
                      IN  [seen EXCEPT !.lines =
                              Append(@, indent \o "\"" \o key \o "\": "
                                        \o EncodeValue(value) \o comma)]

RECURSIVE SerKeysFrom(_, _, _, _, _, _)
SerKeysFrom(st, d, secs, name, keys, i) ==
    IF i > Len(keys) THEN st
    ELSE SerKeysFrom(SerKey(st, d, secs, name, keys, i), d, secs, name, keys, i + 1)

\* a callback that writes a comment line for every section, "General" too
SerSectionHeadingAll(st, d, secs, j) ==
    LET name == secs[j].name
        headed == [st EXCEPT !.lines = Append(@, "  // " \o name)]
        done == SerKeysFrom(headed, d, secs, name, secs[j].keys, 1)
    IN  [done EXCEPT !.lines = Append(@, "")]

\* the callback of sections.forEach for section secs[j]
SerSection(st, d, secs, j) ==
    LET name == secs[j].name
        headed == IF name # "General"
                  THEN [st EXCEPT !.lines = Append(@, "  // " \o name)]
                  ELSE st
        done == SerKeysFrom(headed, d, secs, name, secs[j].keys, 1)
    IN  [done EXCEPT !.lines = Append(@, "")]

RECURSIVE SerSectionsFrom(_, _, _, _)
SerSectionsFrom(st, d, secs, j) ==
    IF j > Len(secs) THEN st
    ELSE SerSectionsFrom(SerSection(st, d, secs, j), d, secs, j + 1)

\* a start that does not mark `$bb_version` as processed
SerStartUnmarked(d) ==
    [lines |-> IF ObjHas(Props(d), "$bb_version")
               THEN <<"{", "  \"$bb_version\": \""
                           \o StringOf(ObjGet(Props(d), "$bb_version")) \o "\",", "">>
               ELSE <<"{">>,
     processedKeys |-> {}]

\* lines 77-85: `{`, the version line and its blank line
SerStart(d) ==
    [lines |-> IF ObjHas(Props(d), "$bb_version")
               THEN <<"{", "  \"$bb_version\": \""
                           \o StringOf(ObjGet(Props(d), "$bb_version")) \o "\",", "">>
               ELSE <<"{">>,
     processedKeys |-> {"$bb_version"}]

\* lines 127-129: while the last line is empty, pop it
RECURSIVE DropTrailingBlank(_)
DropTrailingBlank(ls) ==
    IF ls[Len(ls)] = "" THEN DropTrailingBlank(SubSeq(ls, 1, Len(ls) - 1)) ELSE ls

\* lines 132-135
FixLastComma(ls) ==
    LET lastLine == ls[Len(ls)]
    IN  IF EndsWith(lastLine, ",")
        THEN [ls EXCEPT ![Len(ls)] = SubSeq(lastLine, 1, Len(lastLine) - 1)]
        ELSE ls

serializeWithComments(d, secs) ==
    LET body == SerSectionsFrom(SerStart(d), d, secs, 1).lines
    IN  Join(Append(FixLastComma(DropTrailingBlank(body)), "}"), "\n")

-----------------------------------------------------------------------------
(* formatKeyName and isChildSetting.                                       *)

\* s.replace(/^\$/, ''): s without a leading `$`
StripSigil(s) == IF StartsWith(s, "$") THEN From(s, 2) ELSE s

\* s.replace(/c/g, d) for characters c and d
RECURSIVE ReplaceAll(_, _, _)
ReplaceAll(s, c, d) ==
    IF s = "" THEN ""
    ELSE (IF CharAt(s, 1) = c THEN d ELSE CharAt(s, 1)) \o ReplaceAll(From(s, 2), c, d)

\* the class `\w`
WordChars == UpperCase \cup LowerCase \cup {"0", "1", "2", "3", "4", "5", "6", "7", "8", "9", "_"}

\* characters of the keys that are outside `\w`
KeyAlphabetOutsideWords == {"$", "-", " ", "."}

LowerString == "abcdefghijklmnopqrstuvwxyz"
UpperString == "ABCDEFGHIJKLMNOPQRSTUVWXYZ"

\* c.toUpperCase() for one character
ToUpperCase(c) ==
    IF c \in LowerCase THEN CharAt(UpperString, IndexOf(LowerString, c, 1)) ELSE c

\* `\b\w` at position i of s: a word character with no word character before it
WordStartAt(s, i) ==
    /\ CharAt(s, i) \in WordChars
    /\ i = 1 \/ CharAt(s, i - 1) \notin WordChars

\* s.replace(/\b\w/g, c => c.toUpperCase()), from position i on
RECURSIVE UpperWordStarts(_, _)
UpperWordStarts(s, i) ==
    IF i > Len(s) THEN ""
    ELSE (IF WordStartAt(s, i) THEN ToUpperCase(CharAt(s, i)) ELSE CharAt(s, i))
            \o UpperWordStarts(s, i + 1)

\* a replace without the `g` flag: the first word alone is capitalized
formatKeyNameFirstWord(k) ==
    LET d == ReplaceAll(StripSigil(k), "_", " ")
        first == SkipWhile(d, 1, KeyAlphabetOutsideWords)
    IN  IF first > Len(d) THEN d
        ELSE SubSeq(d, 1, first - 1) \o ToUpperCase(CharAt(d, first)) \o From(d, first + 1)

\* lines 143-148
formatKeyName(k) == UpperWordStarts(ReplaceAll(StripSigil(k), "_", " "), 1)

\* parts.slice(0, 2)
FirstTwo(parts) == SubSeq(parts, 1, IF Len(parts) < 2 THEN Len(parts) ELSE 2)

\* `'$' + baseName`
ParentKey(k) == "$" \o Join(FirstTwo(Split(StripSigil(k), "_")), "_")

\* a check of the parent's presence alone
isChildSettingAnyParent(k, keys) ==
    \E i \in 1..Len(keys) : keys[i] = ParentKey(k)

\* lines 151-156
isChildSetting(k, keys) ==
    k # ParentKey(k) /\ \E i \in 1..Len(keys) : keys[i] = ParentKey(k)

-----------------------------------------------------------------------------
(* Bounds and input pools.                                                 *)

MaxScanLines == 5
MaxBodyLines == 3
MaxLineLen == 8
MaxKeys == 3
MaxKeyLen == 4

\* all sequences over pool of length lo..hi
SeqsOver(pool, lo, hi) == UNION {[1..n -> pool] : n \in lo..hi}

\* all strings over the characters of alphabet of length 0..n
RECURSIVE StringsUpTo(_, _)
StringsUpTo(alphabet, n) ==
    IF n = 0 THEN {""}
    ELSE LET shorter == StringsUpTo(alphabet, n - 1)
         IN  shorter \cup {s \o c : s \in shorter, c \in alphabet}

\* the lines a text given to the section scan is made of, MaxScanLines at most
ScanPool == {"// A", "  // B", "  \"$k\": 1,", "\"$m\": true", "\"$n\" : 3,", "// General"}

\* lines given to the comment remover: every line of quotes, backslashes and
\* slashes up to MaxLineLen, and the lines of a configuration file
StripAlphabet == {"\"", "\\", "/"}

StripLines ==
    StringsUpTo(StripAlphabet, MaxLineLen)
        \cup {"  \"$url_setting\": \"http://example.com\"",
              "\"$weapon_hud\": true, // toggles HUD",
              "  // MODS - heavy",
              "\"$dirs\": [\"c:\\\\\", \"http://x\"], // roots",
              "\"$ratio\": 1 / 2"}

\* members and comment lines of a text given to parseJsonWithComments:
\* [pre, post], the member's comma going between the two
Member(pre, post) == [pre |-> pre, post |-> post, member |-> TRUE]
Comment(c) == [pre |-> c, post |-> "", member |-> FALSE]

BodyPool == {Comment("// MODS"),
             Comment("  // HUD - main"),
             Member("  \"$bb_version\": \"1.0\"", ""),
             Member("  \"$weapon_hud\": true", " // toggles HUD"),
             Member("\"$url\": \"http://x\"", ""),
             Member("\"$name\": \"a\\\"b\"", ""),
             Member("\"$list\" : []", ""),
             Member("\"note\": null", "")}

\* the lines of a body, a comma after every member but the last
BodyLines(b) ==
    LET lastMember == IF \E i \in 1..Len(b) : b[i].member
                      THEN CHOOSE i \in 1..Len(b) :
                              b[i].member /\ \A j \in (i + 1)..Len(b) : ~b[j].member
                      ELSE 0
    IN  [i \in 1..Len(b) |->
            b[i].pre \o (IF b[i].member /\ i # lastMember THEN "," ELSE "") \o b[i].post]

WellFormedTexts ==
    {Join(<<"{">> \o BodyLines(b) \o <<"}">>, "\n") : b \in SeqsOver(BodyPool, 0, MaxBodyLines)}

\* the scenario of the specification's section 8
ScenarioText ==
    Join(<<"{",
           "// MODS",
           "\"$bb_version\": \"1.0\",",
           "\"$weapon_hud\": true, // toggles HUD",
           "\"$weapon_hud_offset\": 5",
           "}">>, "\n")

\* texts that are no JSON once their comments are removed
MalformedTexts ==
    {"", "{", "{\n// MODS\n\"$weapon_hud\": true,\n}", "{\n\"$weapon_hud\": tru\n}",
     "// MODS\n\"$weapon_hud\": true"}

Texts == WellFormedTexts \cup {ScenarioText} \cup MalformedTexts

-----------------------------------------------------------------------------
(* The section scan, one line at a time.                                   *)

ScanState == [currentSection |-> currentSection, sectionKeys |-> sectionKeys,
              sections |-> sections]

ScanIdle ==
    /\ lines = <<>>
    /\ idx = 0
    /\ currentSection = None
    /\ sectionKeys = <<>>
    /\ sections = EmptyMap

SerIdle ==
    /\ originalData = NoData
    /\ data = NoData
    /\ secIndex = EmptyMap
    /\ output = None
    /\ reparsed = NoOutcome

HelperIdle ==
    /\ keyArg = None
    /\ allKeysArg = <<>>
    /\ helperResult = None

EditorIdle ==
    /\ fileName = ""
    /\ error = Null
    /\ expandedSections = {}
    /\ searchQuery = ""
    /\ readers = {}

InitScan ==
    /\ mode = "scan"
    /\ text = None
    /\ lines = <<>>
    /\ idx = 1
    /\ currentSection = ScanStart.currentSection
    /\ sectionKeys = ScanStart.sectionKeys
    /\ sections = ScanStart.sections
    /\ parsed = NoOutcome
    /\ SerIdle
    /\ HelperIdle
    /\ EditorIdle

\* the loop body applied to the next line of the text, lines[idx]
ScanAdvance(line) ==
    LET st == ScanLine(ScanState, line)
    IN  /\ Len(lines) < MaxScanLines
        /\ lines' = Append(lines, line)
        /\ currentSection' = st.currentSection
        /\ sectionKeys' = st.sectionKeys
        /\ sections' = st.sections
        /\ idx' = idx + 1
        /\ UNCHANGED <<helperVars, editorVars, mode, text, parsed, serVars>>

ScanHeaderLine ==
    /\ mode = "scan"
    /\ \E line \in ScanPool :
          /\ SectionMatch(Trim(line)) # None
          /\ ScanAdvance(line)

ScanKeyLine ==
    /\ mode = "scan"
    /\ \E line \in ScanPool :
          /\ SectionMatch(Trim(line)) = None
          /\ KeyMatch(Trim(line)) # None
          /\ ScanAdvance(line)

ScanOtherLine ==
    /\ mode = "scan"
    /\ \E line \in ScanPool :
          /\ SectionMatch(Trim(line)) = None
          /\ KeyMatch(Trim(line)) = None
          /\ ScanAdvance(line)

\* the text ends after lines[idx - 1]: "Save last section"
ScanSaveLast ==
    /\ mode = "scan"
    /\ Len(lines) >= 1
    /\ sections' = ScanSave(ScanState)
    /\ text' = Join(lines, "\n")
    /\ mode' = "scanned"
    /\ UNCHANGED <<helperVars, editorVars, lines, idx, currentSection, sectionKeys, parsed, serVars>>

NextScan == ScanHeaderLine \/ ScanKeyLine \/ ScanOtherLine \/ ScanSaveLast

SpecScan == InitScan /\ [][NextScan]_vars

-----------------------------------------------------------------------------
(* The comment remover on one line.                                        *)

InitStrip ==
    /\ mode = "strip"
    /\ text \in StripLines
    /\ parsed = NoOutcome
    /\ ScanIdle
    /\ SerIdle
    /\ HelperIdle
    /\ EditorIdle

Strip ==
    /\ mode = "strip"
    /\ output' = StripLine(text)
    /\ mode' = "stripped"
    /\ UNCHANGED <<helperVars, editorVars, text, scanVars, parsed, originalData, data, secIndex, reparsed>>

\* lines of a text that come before the line given to the comment remover
PrecedingLines == {"{", "  \"$name\": \"open", "// \"quoted"}

\* the line as the second line of a text: cleanedLines.join('\n')
Clean ==
    /\ mode = "strip"
    /\ \E before \in PrecedingLines : lines' = <<before, text>>
    /\ output' = CleanedJson(lines')
    /\ mode' = "cleaned"
    /\ UNCHANGED <<helperVars, editorVars, text, idx, currentSection, sectionKeys, sections,
                   parsed, originalData, data, secIndex, reparsed>>

NextStrip == Strip \/ Clean

SpecStrip == InitStrip /\ [][NextStrip]_vars

-----------------------------------------------------------------------------
(* Parse, serialize what was parsed, parse again.                          *)

Init ==
    /\ mode = "start"
    /\ text \in Texts
    /\ parsed = NoOutcome
    /\ ScanIdle
    /\ SerIdle
    /\ HelperIdle
    /\ EditorIdle

Parse ==
    /\ mode = "start"
    /\ parsed' = parseJsonWithComments(text)
    /\ mode' = "parsed"
    /\ UNCHANGED <<helperVars, editorVars, text, scanVars, serVars>>

Serialize ==
    /\ mode = "parsed"
    /\ parsed.kind = "returned"
    /\ parsed.data.t = "object"
    /\ data' = parsed.data
    /\ secIndex' = parsed.sections
    /\ output' = serializeWithComments(parsed.data, parsed.sections)
    /\ mode' = "serialized"
    /\ UNCHANGED <<helperVars, editorVars, text, scanVars, parsed, originalData, reparsed>>

Reparse ==
    /\ mode = "serialized"
    /\ reparsed' = parseJsonWithComments(output)
    /\ mode' = "reparsed"
    /\ UNCHANGED <<helperVars, editorVars, text, scanVars, parsed, originalData, data, secIndex, output>>

Next == Parse \/ Serialize \/ Reparse

Spec == Init /\ [][Next]_vars

-----------------------------------------------------------------------------
(* serializeWithComments on a value map whose leaf values are edited.      *)

KeyUniverse == {"$bb_version", "$weapon_hud", "$weapon_hud_offset", "$weapon_opacity", "$x"}

SectionNamings == {<<"General", "MODS">>, <<"MODS", "HUD - main">>}

\* no section, a General section alone, or a key list of MaxKeys keys at most
\* cut in two sections
SecIndexes ==
    {<<>>} \cup
    {<<[name |-> "General", keys |-> ks]>> : ks \in SeqsOver(KeyUniverse, 1, MaxKeys - 1)} \cup
    {<<[name |-> n[1], keys |-> SubSeq(ks, 1, c)],
       [name |-> n[2], keys |-> SubSeq(ks, c + 1, Len(ks))]>> :
        <<ks, c, n>> \in {t \in SeqsOver(KeyUniverse, 0, MaxKeys) \X (0..MaxKeys) \X SectionNamings :
                            t[2] <= Len(t[1])}}

\* value maps as a parse returns them
DataPool ==
    {JObj(<<[key |-> "$bb_version", value |-> JStr("1.0")],
            [key |-> "$weapon_hud", value |-> JBool(TRUE)],
            [key |-> "$weapon_hud_offset", value |-> JNum(5)],
            [key |-> "$weapon_opacity", value |-> JStr("a")],
            [key |-> "$x", value |-> JArr(<<JNum(1), JStr("b")>>)]>>),
     JObj(<<[key |-> "$weapon_hud", value |-> JBool(FALSE)],
            [key |-> "$weapon_opacity", value |-> JStr("a\nb")],
            [key |-> "$x", value |-> JArr(<<>>)]>>)}

\* what the editor's inputs can put in place of a value (renderValue): a toggle
\* negates, a number field gives a number, a text field a string
EditValues(v) ==
    CASE v.t = "boolean" -> {JBool(~v.b)}
      [] v.t = "number"  -> {JNum(5), JNum(12)} \ {v}
      [] v.t = "string"  -> {JStr("a"), JStr("b c")} \ {v}
      [] OTHER -> {}

InitSerialize ==
    /\ mode = "edit"
    /\ text = None
    /\ parsed = NoOutcome
    /\ ScanIdle
    /\ originalData \in DataPool
    /\ data = originalData
    /\ secIndex \in SecIndexes
    /\ output = None
    /\ reparsed = NoOutcome
    /\ HelperIdle
    /\ EditorIdle

\* an update written into the object originalData holds as well
updateValueAliased(key, value) ==
    /\ mode = "edit"
    /\ ObjHas(data.members, key)
    /\ data' = JObj(ObjSet(data.members, key, value))
    /\ originalData' = data'
    /\ UNCHANGED <<helperVars, editorVars, mode, text, scanVars, parsed, secIndex, output, reparsed>>

\* setData(prev => ({ ...prev, [key]: value })) for a key the editor shows
updateValue(key, value) ==
    /\ mode = "edit"
    /\ ObjHas(data.members, key)
    /\ data' = JObj(ObjSet(data.members, key, value))
    /\ UNCHANGED <<helperVars, editorVars, mode, text, scanVars, parsed, originalData, secIndex, output, reparsed>>

UpdateAnyValue ==
    \E key \in KeyUniverse \ {"$bb_version"} :
        /\ ObjHas(data.members, key)
        /\ \E value \in EditValues(ObjGet(data.members, key)) : updateValue(key, value)

\* handleExport: output = serializeWithComments(data, sections)
Export ==
    /\ mode = "edit"
    /\ output' = serializeWithComments(data, secIndex)
    /\ mode' = "exported"
    /\ UNCHANGED <<helperVars, editorVars, text, scanVars, parsed, originalData, data, secIndex, reparsed>>

NextSerialize == UpdateAnyValue \/ Export

SpecSerialize == InitSerialize /\ [][NextSerialize]_vars

-----------------------------------------------------------------------------
(* formatKeyName and isChildSetting on any string.                         *)

KeyAlphabet == {"$", "_", "a", "B", "-", "1"}

\* every string over KeyAlphabet up to MaxKeyLen, and keys of a configuration file
KeyStrings ==
    StringsUpTo(KeyAlphabet, MaxKeyLen)
        \cup {"$bb_version", "$a_b_c", "$weapon_hud", "$weapon_hud_offset",
              "weapon_hud_offset", "$hud-scale.x y"}

\* key lists handed to isChildSetting
AllKeysPool ==
    {<<>>, <<"$">>, <<"$a">>, <<"$_">>, <<"$a_">>, <<"$a_B">>, <<"$a", "$1_1">>,
     <<"$weapon_hud", "$weapon_hud_offset">>}

InitKeys ==
    /\ mode = "key"
    /\ text = None
    /\ parsed = NoOutcome
    /\ ScanIdle
    /\ SerIdle
    /\ keyArg \in KeyStrings
    /\ allKeysArg = <<>>
    /\ helperResult = None
    /\ EditorIdle

FormatKey ==
    /\ mode = "key"
    /\ helperResult' = formatKeyName(keyArg)
    /\ mode' = "formatted"
    /\ UNCHANGED <<text, scanVars, parsed, serVars, keyArg, allKeysArg, editorVars>>

\* isChildSetting(key, allKeys), allKeys holding the key itself or not
ClassifyKey ==
    /\ mode = "key"
    /\ \E ks \in AllKeysPool, own \in BOOLEAN :
          /\ allKeysArg' = IF own THEN Append(ks, keyArg) ELSE ks
          /\ helperResult' = isChildSetting(keyArg, allKeysArg')
    /\ mode' = "classified"
    /\ UNCHANGED <<text, scanVars, parsed, serVars, keyArg, editorVars>>

\* the two classifications of one key: the serializer's and isChildSetting
CompareKey ==
    /\ mode = "key"
    /\ \E ks \in AllKeysPool, own \in BOOLEAN :
          /\ allKeysArg' = IF own THEN Append(ks, keyArg) ELSE ks
          /\ helperResult' = [isSubSetting |-> isSubSetting(keyArg),
                              isChildSetting |-> isChildSetting(keyArg, allKeysArg')]
    /\ mode' = "compared"
    /\ UNCHANGED <<text, scanVars, parsed, serVars, keyArg, editorVars>>

NextKeys == FormatKey \/ ClassifyKey \/ CompareKey

SpecKeys == InitKeys /\ [][NextKeys]_vars

-----------------------------------------------------------------------------
(* BBConfigEditor: loading, editing, resetting and exporting.              *)

\* files given to handleFile: [name, text]
FilePool ==
    {[name |-> "hud.json", text |-> ScenarioText],
     [name |-> "mods.json", text |-> "{\n  // MODS\n  \"$weapon_opacity\": \"a\"\n}"],
     [name |-> "broken.json", text |-> "{\n// MODS\n\"$weapon_hud\": tru\n}"]}

SearchQueries == {"", "hud"}

\* `!v` is false: v is none of null, false, 0, ''
Truthy(v) ==
    ~ \/ v.t = "null"
      \/ v.t = "boolean" /\ ~v.b
      \/ v.t = "number" /\ v.n = 0
      \/ v.t = "string" /\ v.s = ""

\* JSON.parse(JSON.stringify(v))
DeepCopy(v) == JSONParse(Stringify(v)).value

InitEditor ==
    /\ mode = "edit"
    /\ text = None
    /\ parsed = NoOutcome
    /\ ScanIdle
    /\ data = Null
    /\ secIndex = EmptyMap
    /\ originalData = Null
    /\ output = None
    /\ reparsed = NoOutcome
    /\ HelperIdle
    /\ EditorIdle

\* handleFile(file), from the upload view: the read is started, onload comes later
handleFile(file) ==
    /\ mode = "edit"
    /\ ~Truthy(data)
    /\ file \notin readers
    /\ error' = Null
    /\ readers' = readers \cup {file}
    /\ UNCHANGED <<mode, text, scanVars, parsed, serVars, helperVars,
                   fileName, expandedSections, searchQuery>>

HandleAnyFile == \E file \in FilePool : handleFile(file)

\* the try block of reader.onload after a parse that returned r
OnLoadTry(file, r) ==
    /\ data' = r.data
    /\ originalData' = DeepCopy(r.data)
    /\ secIndex' = r.sections
    /\ fileName' = file.name
    /\ expandedSections' = {r.sections[i].name : i \in 1..Len(r.sections)}
    /\ UNCHANGED error

\* a catch block that also leaves the edit view
OnLoadCatchClearing(r) ==
    /\ error' = JStr(r.message)
    /\ data' = Null
    /\ secIndex' = EmptyMap
    /\ UNCHANGED <<originalData, fileName, expandedSections>>

\* the catch block of reader.onload after a parse that threw r
OnLoadCatch(r) ==
    /\ error' = JStr(r.message)
    /\ UNCHANGED <<data, originalData, secIndex, fileName, expandedSections>>

\* reader.onload for a file being read
onload(file) ==
    /\ mode = "edit"
    /\ file \in readers
    /\ readers' = readers \ {file}
    /\ parsed' = parseJsonWithComments(file.text)
    /\ IF parsed'.kind = "returned" THEN OnLoadTry(file, parsed') ELSE OnLoadCatch(parsed')
    /\ UNCHANGED <<mode, text, scanVars, output, reparsed, helperVars, searchQuery>>

LoadReturned == \E file \in readers : onload(file) /\ parsed'.kind = "returned"

LoadThrew == \E file \in readers : onload(file) /\ parsed'.kind = "thrown"

\* handleExport, from the edit view
handleExport ==
    /\ mode = "edit"
    /\ Truthy(data)
    /\ output' = serializeWithComments(data, secIndex)
    /\ UNCHANGED <<mode, text, scanVars, parsed, originalData, data, secIndex, reparsed,
                   helperVars, editorVars>>

\* a reset that forgets the sections as well
handleResetAll ==
    /\ mode = "edit"
    /\ Truthy(data)
    /\ Truthy(originalData)
    /\ data' = DeepCopy(originalData)
    /\ secIndex' = EmptyMap
    /\ UNCHANGED <<mode, text, scanVars, parsed, originalData, output, reparsed,
                   helperVars, editorVars>>

\* handleReset, from the edit view
handleReset ==
    /\ mode = "edit"
    /\ Truthy(data)
    /\ Truthy(originalData)
    /\ data' = DeepCopy(originalData)
    /\ UNCHANGED <<mode, text, scanVars, parsed, originalData, secIndex, output, reparsed,
                   helperVars, editorVars>>

\* handleNewFile, from the edit view
handleNewFile ==
    /\ mode = "edit"
    /\ Truthy(data)
    /\ data' = Null
    /\ secIndex' = EmptyMap
    /\ originalData' = Null
    /\ fileName' = ""
    /\ error' = Null
    /\ UNCHANGED <<mode, text, scanVars, parsed, output, reparsed, helperVars,
                   expandedSections, searchQuery, readers>>

\* toggleSection(section)
toggleSection(section) ==
    /\ mode = "edit"
    /\ Truthy(data)
    /\ expandedSections' = IF section \in expandedSections
                           THEN expandedSections \ {section}
                           ELSE expandedSections \cup {section}
    /\ UNCHANGED <<mode, text, scanVars, parsed, serVars, helperVars,
                   fileName, error, searchQuery, readers>>

\* a click on the header of a section shown
ToggleAnySection == \E i \in 1..Len(secIndex) : toggleSection(secIndex[i].name)

\* setSearchQuery(e.target.value), from the edit view
ChangeSearchQuery ==
    /\ mode = "edit"
    /\ Truthy(data)
    /\ \E q \in SearchQueries \ {searchQuery} : searchQuery' = q
    /\ UNCHANGED <<mode, text, scanVars, parsed, serVars, helperVars,
                   fileName, error, expandedSections, readers>>

\* an edit of a value shown in the edit view
EditShownValue == Truthy(data) /\ data.t = "object" /\ UpdateAnyValue

NextEditor ==
    \/ HandleAnyFile
    \/ LoadReturned
    \/ LoadThrew
    \/ handleExport
    \/ handleReset
    \/ handleNewFile
    \/ EditShownValue
    \/ ToggleAnySection
    \/ ChangeSearchQuery

SpecEditor == InitEditor /\ [][NextEditor]_vars

-----------------------------------------------------------------------------
(* What the claims speak of: the lines of a text as the scan classifies    *)
(* them, and the lines of a serialized text.                               *)

Min(S) == CHOOSE x \in S : \A y \in S : x <= y
Max(S) == CHOOSE x \in S : \A y \in S : x >= y

\* the section a line names, or None
NameOfHeader(line) ==
    LET m == SectionMatch(Trim(line)) IN IF m = None THEN None ELSE Trim(m)

\* the same for the lines of ScanPool, worked out once
PoolHeaderNames == [line \in ScanPool |-> NameOfHeader(line)]

HeaderNameOf(line) ==
    IF line \in ScanPool THEN PoolHeaderNames[line] ELSE NameOfHeader(line)

IsHeaderLine(line) == HeaderNameOf(line) # None

\* the key a line declares, or None
KeyDeclaredOn(line) ==
    LET m == KeyMatch(Trim(line))
    IN  IF IsHeaderLine(line) \/ m = None THEN None ELSE "$" \o m

\* the same for the lines of ScanPool, worked out once
PoolDeclaredKeys == [line \in ScanPool |-> KeyDeclaredOn(line)]

DeclaredKeyOf(line) ==
    IF line \in ScanPool THEN PoolDeclaredKeys[line] ELSE KeyDeclaredOn(line)

HeaderIndexes(ls) == {i \in 1..Len(ls) : IsHeaderLine(ls[i])}

\* where the lines that follow position i stop: before the next header, or at the end
RunEnd(ls, i) ==
    LET later == {j \in HeaderIndexes(ls) : j > i}
    IN  IF later = {} THEN Len(ls) ELSE Min(later) - 1

\* the keys declared on lines a..b, in line order
RECURSIVE KeysBetween(_, _, _)
KeysBetween(ls, a, b) ==
    IF a > b THEN <<>>
    ELSE LET k == DeclaredKeyOf(ls[a])
         IN  (IF k = None THEN <<>> ELSE <<k>>) \o KeysBetween(ls, a + 1, b)

\* the keys declared after the header at line i (i = 0: from the start of the
\* text) and before the next header
KeysAfter(ls, i) == KeysBetween(ls, i + 1, RunEnd(ls, i))

\* the lines at which a section name is set: its headers, and 0 for "General"
Occurrences(ls, name) ==
    {i \in HeaderIndexes(ls) : HeaderNameOf(ls[i]) = name}
        \cup (IF name = "General" THEN {0} ELSE {})

KeyedOccurrences(ls, name) == {i \in Occurrences(ls, name) : KeysAfter(ls, i) # <<>>}

TextLines == Split(text, "\n")

-----------------------------------------------------------------------------
(* Claims about parseJsonWithComments, checked under Spec.                 *)

FirstParseReturned == parsed.kind = "returned"

\* the keys of a value map that start with `$`, in the order of the map
DollarKeys(d) ==
    LET ms == SelectSeq(Props(d), LAMBDA m : StartsWith(m.key, "$"))
    IN  [i \in 1..Len(ms) |-> ms[i].key]

\* an input of the round trip: header comments, and `$`-keys only
RoundTripInput ==
    /\ HeaderIndexes(TextLines) # {}
    /\ Len(Props(parsed.data)) >= 1
    /\ \A i \in 1..Len(Props(parsed.data)) : StartsWith(Props(parsed.data)[i].key, "$")

\* C1: parse, serialize, parse again gives the data and the sections of the
\* first parse, for a well-formed input with header comments and `$`-keys.
C1_RoundTrip ==
    (mode = "reparsed" /\ RoundTripInput) =>
        /\ reparsed.kind = "returned"
        /\ DeepEqual(reparsed.data, parsed.data)
        /\ reparsed.sections = parsed.sections

\* C24: a text that serializeWithComments produced from what a parse returned
\* is a fixed point: parsing it returns, and serializing what that parse
\* returned gives the same text again.
C24_ExportFixedPoint ==
    mode = "reparsed" =>
        /\ reparsed.kind = "returned"
        /\ serializeWithComments(reparsed.data, reparsed.sections) = output

\* C3: parseJsonWithComments returns data and sections together, or throws
\* 'Invalid JSON format: ' followed by the JSON parser's message and nothing
\* else, whatever the section scan had found.
C3_AllOrNothing ==
    parsed # NoOutcome =>
        LET r == JSONParse(CleanedJson(TextLines))
        IN  IF r.ok
            THEN /\ DOMAIN parsed = {"kind", "data", "sections"}
                 /\ parsed.kind = "returned"
                 /\ parsed.data = r.value
                 /\ parsed.sections = ScanSections(TextLines)
            ELSE /\ DOMAIN parsed = {"kind", "message"}
                 /\ parsed.kind = "thrown"
                 /\ parsed.message = "Invalid JSON format: " \o r.message

\* a parse that threw although its section scan had found sections
C3_Witness ==
    /\ parsed.kind = "thrown"
    /\ ScanSections(TextLines) # EmptyMap

\* C7 as stated: without a header line the index is exactly one "General"
\* section holding every top-level `$`-key of the data; keys declared before
\* the first header are under "General".
C7_GeneralAlways ==
    FirstParseReturned =>
        /\ HeaderIndexes(TextLines) = {} =>
              parsed.sections = <<[name |-> "General", keys |-> DollarKeys(parsed.data)]>>
        /\ KeysAfter(TextLines, 0) # <<>> =>
              /\ MapHas(parsed.sections, "General")
              /\ MapGet(parsed.sections, "General") = KeysAfter(TextLines, 0)

\* C7 amended: without a header line the index is one "General" section
\* holding the keys of the key declaration lines in line order, or is empty
\* when no line declares a key; keys declared before the first header are
\* under "General".
C7_GeneralWhenKeys ==
    FirstParseReturned =>
        /\ HeaderIndexes(TextLines) = {} =>
              parsed.sections =
                  IF KeysAfter(TextLines, 0) = <<>> THEN EmptyMap
                  ELSE <<[name |-> "General", keys |-> KeysAfter(TextLines, 0)]>>
        /\ KeysAfter(TextLines, 0) # <<>> =>
              /\ MapHas(parsed.sections, "General")
              /\ parsed.sections[1].name = "General"
              /\ MapGet(parsed.sections, "General") = KeysAfter(TextLines, 0)

\* a headerless text declaring two keys, and a text with keys before its first header
C7_Witness ==
    /\ FirstParseReturned
    /\ Len(KeysAfter(TextLines, 0)) >= 2
    /\ MapHas(parsed.sections, "General")
    /\ HeaderIndexes(TextLines) = {}

ScenarioData ==
    JObj(<<[key |-> "$bb_version", value |-> JStr("1.0")],
           [key |-> "$weapon_hud", value |-> JBool(TRUE)],
           [key |-> "$weapon_hud_offset", value |-> JNum(5)]>>)

\* C8 as stated: the scenario text parses to the three values and to the
\* index {"General": [], "MODS": ["$weapon_hud", "$weapon_hud_offset"]}.
C8_ScenarioAsStated ==
    (text = ScenarioText /\ parsed # NoOutcome) =>
        /\ parsed.kind = "returned"
        /\ DeepEqual(parsed.data, ScenarioData)
        /\ parsed.sections =
              <<[name |-> "General", keys |-> <<>>],
                [name |-> "MODS", keys |-> <<"$weapon_hud", "$weapon_hud_offset">>]>>

\* C8 amended: the scenario text parses to the three values and to the index
\* {"MODS": ["$bb_version", "$weapon_hud", "$weapon_hud_offset"]}.
C8_ScenarioAsParsed ==
    (text = ScenarioText /\ parsed # NoOutcome) =>
        /\ parsed.kind = "returned"
        /\ DeepEqual(parsed.data, ScenarioData)
        /\ parsed.sections =
              <<[name |-> "MODS",
                 keys |-> <<"$bb_version", "$weapon_hud", "$weapon_hud_offset">>]>>

C8_Witness == text = ScenarioText /\ mode = "parsed" /\ parsed.kind = "returned"

-----------------------------------------------------------------------------
(* Claims about the section scan, checked under SpecScan.                  *)

SectionNamesIn(ls) == {HeaderNameOf(ls[i]) : i \in HeaderIndexes(ls)}

\* a name headed more than once, every time with a key declared under it
RepeatedKeyed(ls, name) ==
    /\ Cardinality(Occurrences(ls, name)) > 1
    /\ KeyedOccurrences(ls, name) = Occurrences(ls, name)

\* C5: a section name headed more than once, each time followed by a key
\* declaration, is stored with the key list of its last occurrence only.
C5_LastWriteWins ==
    mode = "scanned" =>
        \A name \in SectionNamesIn(lines) :
            RepeatedKeyed(lines, name) =>
                /\ MapHas(sections, name)
                /\ MapGet(sections, name) = KeysAfter(lines, Max(Occurrences(lines, name)))

\* a name headed twice with different key lists
C5_Witness ==
    /\ mode = "scanned"
    /\ \E name \in SectionNamesIn(lines) :
          /\ RepeatedKeyed(lines, name)
          /\ KeysAfter(lines, Min(Occurrences(lines, name)))
                # KeysAfter(lines, Max(Occurrences(lines, name)))
          /\ MapGet(sections, name) = KeysAfter(lines, Max(Occurrences(lines, name)))

\* C6 as stated: the sections of the index are in the order in which their
\* names first appear in the text.
C6_OrderOfFirstAppearance ==
    mode = "scanned" =>
        \A a, b \in 1..Len(sections) :
            a < b => Min(Occurrences(lines, sections[a].name))
                        < Min(Occurrences(lines, sections[b].name))

\* C6 amended: the index holds the names that are followed by a key
\* declaration at some occurrence, in the order of the first such occurrence.
C6_OrderOfFirstKeys ==
    mode = "scanned" =>
        /\ {sections[a].name : a \in 1..Len(sections)}
              = {name \in SectionNamesIn(lines) \cup {"General"} :
                    KeyedOccurrences(lines, name) # {}}
        /\ \A a, b \in 1..Len(sections) :
              a < b => Min(KeyedOccurrences(lines, sections[a].name))
                          < Min(KeyedOccurrences(lines, sections[b].name))

\* two sections, one of them headed without keys before it was headed with keys
C6_Witness ==
    /\ mode = "scanned"
    /\ Len(sections) >= 2
    /\ \E a \in 1..Len(sections) :
          Min(Occurrences(lines, sections[a].name))
              # Min(KeyedOccurrences(lines, sections[a].name))

\* the key of a line, for a pattern /^\s*"\$[^"]+"<gap>:/ whose gap is \s* (loose)
\* or nothing; None when the line does not match
PatternKey(line, loose) ==
    LET a == SkipWhile(line, 1, WhiteSpace)
        q == IndexOf(line, "\"", a + 2)
        c == IF loose THEN SkipWhile(line, q + 1, WhiteSpace) ELSE q + 1
    IN  IF /\ a + 1 <= Len(line)
           /\ SubSeq(line, a, a + 1) = "\"$"
           /\ q > a + 2
           /\ c <= Len(line)
           /\ CharAt(line, c) = ":"
        THEN SubSeq(line, a + 1, q - 1)
        ELSE None

\* the lines read since the last header
RECURSIVE PatternKeysBetween(_, _, _, _)
PatternKeysBetween(ls, a, b, loose) ==
    IF a > b THEN <<>>
    ELSE LET k == PatternKey(ls[a], loose)
         IN  (IF k = None THEN <<>> ELSE <<k>>) \o PatternKeysBetween(ls, a + 1, b, loose)

LastHeader(ls) == IF HeaderIndexes(ls) = {} THEN 0 ELSE Max(HeaderIndexes(ls))

\* C9 as stated: every line matching /^\s*"\$[^"]+"\s*:/ adds its key to the
\* accumulator of the current section.
C9_LoosePatternAccumulates ==
    mode = "scan" =>
        sectionKeys = PatternKeysBetween(lines, LastHeader(lines) + 1, Len(lines), TRUE)

\* C9 amended: every line matching /^\s*"\$[^"]+":/ (the colon right after the
\* closing quote) adds its key to the accumulator of the current section, and
\* no other line does.
C9_StrictPatternAccumulates ==
    mode = "scan" =>
        sectionKeys = PatternKeysBetween(lines, LastHeader(lines) + 1, Len(lines), FALSE)

\* an indented key line was read last and its key is the last of the accumulator
C9_Witness ==
    /\ mode = "scan"
    /\ Len(lines) >= 2
    /\ StartsWith(lines[Len(lines)], " ")
    /\ PatternKey(lines[Len(lines)], FALSE) # None
    /\ Len(sectionKeys) >= 2
    /\ sectionKeys[Len(sectionKeys)] = PatternKey(lines[Len(lines)], FALSE)

\* the occurrences of a section name that were followed by a key declaration
\* and are over: another header was read after them, or the text has ended
ClosedOccurrences(ls, name) ==
    {i \in KeyedOccurrences(ls, name) :
        mode = "scanned" \/ \E j \in HeaderIndexes(ls) : j > i}

\* C16: at every point of the scan each stored list is exactly the keys of the
\* key declaration lines between one header naming its section (the start of
\* the text for "General") and the next header or the end of the text, in
\* line order; no two stored lists come from the same lines, and the lines
\* read after the last header are in no stored list.
C16_ListsAreRuns ==
    mode \in {"scan", "scanned"} =>
        /\ \A a \in 1..Len(sections) :
              LET over == ClosedOccurrences(lines, sections[a].name)
              IN  /\ over # {}
                  /\ sections[a].keys = KeysAfter(lines, Max(over))
        /\ \A a, b \in 1..Len(sections) :
              a # b => sections[a].name # sections[b].name

\* two stored lists, a third run being gathered after the last header
C16_Witness ==
    /\ mode = "scan"
    /\ Len(sections) = 2
    /\ sectionKeys # <<>>
    /\ sections[1].keys = KeysAfter(lines, 0)
    /\ \A a \in 1..2 : \A i \in 1..Len(sectionKeys) :
          \A h \in 1..Len(sections[a].keys) : sections[a].keys[h] # sectionKeys[i]

\* C25: every key list of the index is non-empty; a section name whose
\* headers are all followed by no key declaration before the next header or
\* the end of the text has no entry, and a text without key declaration
\* yields the empty index.
C25_NoEmptyList ==
    /\ \A a \in 1..Len(sections) : sections[a].keys # <<>>
    /\ mode = "scanned" =>
          /\ \A name \in SectionNamesIn(lines) \cup {"General"} :
                KeyedOccurrences(lines, name) = {} => ~MapHas(sections, name)
          /\ (\A i \in 1..Len(lines) : DeclaredKeyOf(lines[i]) = None) => sections = EmptyMap

\* a header at the end of the text without key after it, another section stored
C25_Witness ==
    /\ mode = "scanned"
    /\ IsHeaderLine(lines[Len(lines)])
    /\ ~MapHas(sections, HeaderNameOf(lines[Len(lines)]))
    /\ sections # EmptyMap

\* the lines before the first header line
BeforeFirstHeader(ls) ==
    IF HeaderIndexes(ls) = {} THEN Len(ls) ELSE Min(HeaderIndexes(ls)) - 1

\* C26: an entry named "General", when there is one, is the first entry and
\* holds exactly the keys declared before the first header line; no header
\* line names the current section "General", so that the keys declared after
\* a header are never filed under it.
C26_GeneralBeforeHeaders ==
    mode \in {"scan", "scanned"} =>
        /\ \A i \in HeaderIndexes(lines) : HeaderNameOf(lines[i]) # "General"
        /\ currentSection = "General" <=> HeaderIndexes(lines) = {}
        /\ \A a \in 1..Len(sections) :
              sections[a].name = "General" =>
                  /\ a = 1
                  /\ sections[a].keys = KeysBetween(lines, 1, BeforeFirstHeader(lines))

\* keys before the first header under "General", and a key declared after the
\* comment line `// General` filed under the header before that line
C26_Witness ==
    /\ mode = "scanned"
    /\ Len(sections) = 2
    /\ sections[1].name = "General"
    /\ \E i \in 2..(Len(lines) - 1) :
          /\ lines[i] = "// General"
          /\ HeaderIndexes(lines) # {}
          /\ Min(HeaderIndexes(lines)) < i
          /\ DeclaredKeyOf(lines[i + 1]) # None
          /\ sections[2].keys[Len(sections[2].keys)] = DeclaredKeyOf(lines[i + 1])

-----------------------------------------------------------------------------
(* Claims about comment removal, checked under SpecStrip.                  *)

\* the positions of a line inside a JSON string literal (between its quotes),
\* a backslash inside a literal escaping the character after it;
\* [inside, closed, clean]: closed when the line ends outside a literal, clean
\* when no backslash stands outside a literal
RECURSIVE JsonLex(_, _, _, _, _)
JsonLex(line, i, inStr, inside, clean) ==
    IF i > Len(line) THEN [inside |-> inside, closed |-> ~inStr, clean |-> clean]
    ELSE LET c == CharAt(line, i)
         IN  IF inStr
             THEN IF c = "\\" THEN JsonLex(line, i + 2, TRUE, inside \cup {i, i + 1}, clean)
                  ELSE IF c = "\"" THEN JsonLex(line, i + 1, FALSE, inside, clean)
                  ELSE JsonLex(line, i + 1, TRUE, inside \cup {i}, clean)
             ELSE IF c = "\"" THEN JsonLex(line, i + 1, TRUE, inside, clean)
                  ELSE JsonLex(line, i + 1, FALSE, inside, clean /\ c # "\\")

SlashPairs(line) == {i \in 1..(Len(line) - 1) : SubSeq(line, i, i + 1) = "//"}

\* every `//` of the line lies inside a string literal of a line whose
\* literals are all closed
SlashesOnlyInStrings(line) ==
    LET lex == JsonLex(line, 1, FALSE, {}, TRUE)
    IN  /\ lex.closed
        /\ lex.clean
        /\ SlashPairs(line) # {}
        /\ \A i \in SlashPairs(line) : {i, i + 1} \subseteq lex.inside

\* C4: a line whose every `//` lies inside a JSON string literal comes out of
\* the comment remover unchanged.
C4_StringsKept ==
    (mode = "stripped" /\ SlashesOnlyInStrings(text)) => output = text

\* the in-string flag when position i of the line is met: set after an odd
\* number of quotes that no backslash precedes
FlagAt(line, i) ==
    Cardinality({j \in 1..(i - 1) :
                    /\ CharAt(line, j) = "\""
                    /\ j = 1 \/ CharAt(line, j - 1) # "\\"}) % 2 = 1

\* the `//` of the line met with the flag not set
CommentStarts(line) == {i \in SlashPairs(line) : ~FlagAt(line, i)}

\* the line up to its first `//` met with the flag not set, or the whole line
BeforeComment(line) ==
    IF CommentStarts(line) = {} THEN line
    ELSE SubSeq(line, 1, Min(CommentStarts(line)) - 1)

\* C17: the comment remover returns the whole line when it meets no `//` with
\* its in-string flag not set, and otherwise the characters before the first
\* such `//`; the flag starts not set on every line, whatever line comes
\* before, and the cleaned text is these results joined with a line break.
C17_PrefixPerLine ==
    /\ mode = "stripped" => output = BeforeComment(text)
    /\ mode = "cleaned" =>
          output = BeforeComment(lines[1]) \o "\n" \o BeforeComment(lines[2])

\* a line cut at its comment, after a line that ends inside a string
C17_Witness ==
    /\ mode = "cleaned"
    /\ FlagAt(lines[1], Len(lines[1]) + 1)
    /\ CommentStarts(lines[2]) # {}
    /\ Min(CommentStarts(lines[2])) > 1
    /\ Len(output) < Len(lines[1]) + 1 + Len(lines[2])

-----------------------------------------------------------------------------
(* Claims about serializeWithComments, checked under SpecSerialize.        *)

LeadingSpaces(l) == SkipWhile(l, 1, {" "}) - 1

\* where the quoted key of a key line `<indent>"<key>": <value>` ends, or 0
KeyLineQuote(l) ==
    LET n == LeadingSpaces(l)
        q == IndexOf(l, "\"", n + 2)
    IN  IF /\ n + 2 <= Len(l)
           /\ CharAt(l, n + 1) = "\""
           /\ q > n + 2
           /\ q + 2 <= Len(l)
           /\ SubSeq(l, q + 1, q + 2) = ": "
        THEN q ELSE 0

IsKeyLine(l) == KeyLineQuote(l) # 0

KeyOfLine(l) == SubSeq(l, LeadingSpaces(l) + 2, KeyLineQuote(l) - 1)

\* the layout of a key line: everything but its value
KeyLineLayout(l) ==
    [indent |-> LeadingSpaces(l), key |-> KeyOfLine(l), comma |-> EndsWith(l, ",")]

\* C2: two value maps with the same keys serialize, under the same section
\* index, to texts with the same number of lines, the same brace, comment and
\* blank lines and, on every key line, the same indentation, key and comma; the
\* lines of keys whose values are equal are the same.
C2_LayoutKept ==
    mode = "exported" =>
        LET a == Split(serializeWithComments(originalData, secIndex), "\n")
            b == Split(output, "\n")
        IN  /\ Len(a) = Len(b)
            /\ \A i \in 1..Len(a) :
                  IF IsKeyLine(a[i]) \/ IsKeyLine(b[i])
                  THEN /\ IsKeyLine(a[i]) /\ IsKeyLine(b[i])
                       /\ KeyLineLayout(a[i]) = KeyLineLayout(b[i])
                       /\ ObjGet(originalData.members, KeyOfLine(a[i]))
                             = ObjGet(data.members, KeyOfLine(a[i])) => a[i] = b[i]
                  ELSE a[i] = b[i]

\* the indentation the rule of the claim gives a key
SegmentsOf(key) == Split(RemoveFirst(key, "$"), "_")

RuleIndent(key) ==
    IF \/ Len(SegmentsOf(key)) > 2
       \/ /\ Len(SegmentsOf(key)) = 2
          /\ SegmentsOf(key)[2] \notin {"hud", "counter", "timer", "list", "menu", "doll", "slots"}
    THEN 4 ELSE 2

OutLines == Split(output, "\n")

\* the key lines of the lines ol but the leading `$bb_version` line
SectionKeyLines(ol) ==
    {i \in 1..Len(ol) : IsKeyLine(ol[i]) /\ ~(i = 2 /\ KeyOfLine(ol[i]) = "$bb_version")}

\* the keys the sections list and the data holds, `$bb_version` apart
ListedKeys ==
    {k \in ObjKeys(data.members) \ {"$bb_version"} :
        \E j \in 1..Len(secIndex) : \E i \in 1..Len(secIndex[j].keys) : secIndex[j].keys[i] = k}

\* C10: every key emitted under a section is indented by 4 spaces when it has
\* more than 2 segments, or 2 segments the second of which is no listed
\* suffix, and by 2 spaces otherwise.
C10_Indentation ==
    mode = "exported" =>
        LET ol == OutLines
            keyLines == SectionKeyLines(ol)
        IN  /\ {KeyOfLine(ol[i]) : i \in keyLines} = ListedKeys
            /\ \A i \in keyLines : LeadingSpaces(ol[i]) = RuleIndent(KeyOfLine(ol[i]))

\* an output with a listed-suffix key at 2 spaces, an unlisted one at 4 and a
\* three-segment one at 4
C10_Witness ==
    /\ mode = "exported"
    /\ LET ol == OutLines
       IN  \E i, j, k \in SectionKeyLines(ol) :
              /\ KeyLineLayout(ol[i]).key = "$weapon_hud"
              /\ KeyLineLayout(ol[i]).indent = 2
              /\ KeyLineLayout(ol[j]).key = "$weapon_opacity"
              /\ KeyLineLayout(ol[j]).indent = 4
              /\ KeyLineLayout(ol[k]).key = "$weapon_hud_offset"
              /\ KeyLineLayout(ol[k]).indent = 4

\* the key lines of the lines ol, the `$bb_version` line included
KeyLines(ol) == {i \in 1..Len(ol) : IsKeyLine(ol[i])}

OneTrailingComma(l) == EndsWith(l, ",") /\ ~EndsWith(l, ",,")

\* C13: the last key line of the returned text carries no trailing comma and
\* every other key line carries exactly one, whatever the value map and the
\* section index, also when the last section emits no key.
C13_CommasBetweenKeys ==
    mode = "exported" =>
        LET ol == OutLines
            keyLines == KeyLines(ol)
        IN  \A i \in keyLines :
                IF i = Max(keyLines) THEN ~EndsWith(ol[i], ",")
                ELSE OneTrailingComma(ol[i])

\* the key lines of `$bb_version`
VersionLines(ol) == {i \in KeyLines(ol) : KeyOfLine(ol[i]) = "$bb_version"}

\* `  "$bb_version": "<value>"`
VersionEntry == "  \"$bb_version\": \"" \o ObjGet(data.members, "$bb_version").s \o "\""

\* the section j lists key k
Lists(j, k) == \E i \in 1..Len(secIndex[j].keys) : secIndex[j].keys[i] = k

\* no section writes a line: each is "General" and lists no key of data but `$bb_version`
NothingAfterVersion ==
    \A j \in 1..Len(secIndex) :
        /\ secIndex[j].name = "General"
        /\ \A k \in ObjKeys(data.members) \ {"$bb_version"} : ~Lists(j, k)

\* C14 as stated: a `$bb_version` of data is written once, first after `{`, as
\* `  "$bb_version": "<value>",` followed by a blank line, also when sections
\* list it; without it in data no such line is written.
C14_VersionFirstThenBlank ==
    mode = "exported" =>
        LET ol == OutLines
        IN  IF ObjHas(data.members, "$bb_version")
            THEN /\ VersionLines(ol) = {2}
                 /\ Len(ol) >= 3
                 /\ ol[2] = VersionEntry \o ","
                 /\ ol[3] = ""
            ELSE VersionLines(ol) = {}

\* C14 amended: the comma and the blank line follow the `$bb_version` line
\* when a section writes a line after it; when none does, the line has no
\* comma and `}` follows it.
C14_VersionFirstOnce ==
    mode = "exported" =>
        LET ol == OutLines
        IN  IF ObjHas(data.members, "$bb_version")
            THEN /\ VersionLines(ol) = {2}
                 /\ IF NothingAfterVersion
                    THEN ol = <<"{", VersionEntry, "}">>
                    ELSE /\ Len(ol) > 4
                         /\ ol[2] = VersionEntry \o ","
                         /\ ol[3] = ""
            ELSE VersionLines(ol) = {}

\* `$bb_version` listed in a section and written once, before the sections
C14_Witness ==
    /\ mode = "exported"
    /\ ObjHas(data.members, "$bb_version")
    /\ \E j \in 1..Len(secIndex) : Lists(j, "$bb_version")
    /\ ~NothingAfterVersion
    /\ VersionLines(OutLines) = {2}

\* the keys of the key lines among ol[i..], in line order
RECURSIVE KeysOfLines(_, _, _)
KeysOfLines(ol, keyLines, i) ==
    IF i > Len(ol) THEN <<>>
    ELSE (IF i \in keyLines THEN <<KeyOfLine(ol[i])>> ELSE <<>>)
            \o KeysOfLines(ol, keyLines, i + 1)

\* the key lists of the sections, one after the other
RECURSIVE ListedFrom(_)
ListedFrom(j) ==
    IF j > Len(secIndex) THEN <<>> ELSE secIndex[j].keys \o ListedFrom(j + 1)

\* the keys of ks kept at their first occurrence, when data holds them and
\* they are not in skipped
RECURSIVE FirstPresent(_, _, _)
FirstPresent(ks, i, skipped) ==
    IF i > Len(ks) THEN <<>>
    ELSE (IF /\ ks[i] \notin skipped
             /\ ObjHas(data.members, ks[i])
             /\ \A h \in 1..(i - 1) : ks[h] # ks[i]
          THEN <<ks[i]>> ELSE <<>>) \o FirstPresent(ks, i + 1, skipped)

\* the keys of the key lines after the `$bb_version` line
KeysAfterVersion ==
    LET ol == OutLines IN KeysOfLines(ol, SectionKeyLines(ol), 1)

\* C15 as stated: the key lines after the `$bb_version` line follow the walk
\* of the sections in stored order and of their key lists in list order, a
\* key kept at its first occurrence only and only when data holds it.
C15_WalkOrder ==
    mode = "exported" => KeysAfterVersion = FirstPresent(ListedFrom(1), 1, {})

\* C15 amended: the walk skips `$bb_version`, written before the sections.
C15_WalkOrderButVersion ==
    mode = "exported" => KeysAfterVersion = FirstPresent(ListedFrom(1), 1, {"$bb_version"})

\* a key listed twice and a listed key that data lacks, two key lines written
C15_Witness ==
    /\ mode = "exported"
    /\ LET ks == ListedFrom(1)
       IN  /\ \E a, b \in 1..Len(ks) : a < b /\ ks[a] = ks[b] /\ ObjHas(data.members, ks[a])
           /\ \E a \in 1..Len(ks) : ~ObjHas(data.members, ks[a])
    /\ Len(KeysAfterVersion) >= 1

\* the lines ls cut at their blank lines: n blank lines make n + 1 blocks
RECURSIVE BlocksOf(_, _, _)
BlocksOf(ls, i, block) ==
    IF i > Len(ls) THEN <<block>>
    ELSE IF ls[i] = "" THEN <<block>> \o BlocksOf(ls, i + 1, <<>>)
    ELSE BlocksOf(ls, i + 1, Append(block, ls[i]))

\* the number of blocks up to the last one that is not empty
LastFilled(blocks) ==
    IF \A p \in 1..Len(blocks) : blocks[p] = <<>> THEN 0
    ELSE Max({p \in 1..Len(blocks) : blocks[p] # <<>>})

IsCommentLine(l) == StartsWith(l, "  // ")

\* the block of section j: its comment line first unless it is "General", no
\* other comment line, and key lines of keys the section lists
SectionBlock(block, j) ==
    LET name == secIndex[j].name
        rest == IF name = "General" THEN block ELSE Tail(block)
    IN  /\ name # "General" => block # <<>> /\ block[1] = "  // " \o name
        /\ \A i \in 1..Len(rest) :
              /\ ~IsCommentLine(rest[i])
              /\ IsKeyLine(rest[i]) => Lists(j, KeyOfLine(rest[i]))

\* C18: the text starts with the line `{` and ends with the line `}`, no blank
\* line before it; between them come, each closed by one blank line, the
\* `$bb_version` line and then one block for each section in stored order,
\* the comment line `  // <name>` unless the name is "General" and then the
\* section's key lines, also for a section without key line; the blank lines
\* at the end are dropped.
C18_BlockPerSection ==
    mode = "exported" =>
        LET ol == OutLines
            blocks == BlocksOf(SubSeq(ol, 2, Len(ol) - 1), 1, <<>>)
            filled == LastFilled(blocks)
            v == IF ObjHas(data.members, "$bb_version") THEN 1 ELSE 0
        IN  /\ Len(ol) >= 2
            /\ ol[1] = "{"
            /\ ol[Len(ol)] = "}"
            /\ ol[Len(ol) - 1] # ""
            /\ Len(blocks) = IF filled = 0 THEN 1 ELSE filled
            /\ filled <= v + Len(secIndex)
            /\ v = 1 => filled >= 1 /\ Len(blocks[1]) = 1 /\ VersionLines(blocks[1]) = {1}
            /\ \A j \in 1..Len(secIndex) :
                  IF v + j <= filled THEN SectionBlock(blocks[v + j], j)
                  ELSE SectionBlock(<<>>, j)

\* a "General" section without key line before a section with its comment
\* line: its blank line, then the comment line
C18_Witness ==
    /\ mode = "exported"
    /\ Len(secIndex) = 2
    /\ secIndex[1].name = "General"
    /\ ~ObjHas(data.members, "$bb_version")
    /\ LET ol == OutLines
       IN  /\ Len(ol) >= 5
           /\ ol[2] = ""
           /\ ol[3] = "  // MODS"
           /\ IsKeyLine(ol[4])

\* the keys some section lists
AllListed == {k \in KeyUniverse : \E j \in 1..Len(secIndex) : Lists(j, k)}

\* C23: the keys on the key lines of the text are the keys of data that are
\* `$bb_version` or listed in a section, each on exactly one key line; a key
\* of data listed nowhere and a key data lacks are on none.
C23_EmittedKeys ==
    mode = "exported" =>
        LET ol == OutLines
            keyOf == [i \in KeyLines(ol) |-> KeyOfLine(ol[i])]
        IN  /\ {keyOf[i] : i \in DOMAIN keyOf}
                  = ObjKeys(data.members) \cap ({"$bb_version"} \cup AllListed)
            /\ \A i, h \in DOMAIN keyOf : keyOf[i] = keyOf[h] => i = h

\* a key of data listed nowhere, a listed key data lacks and a key listed twice
C23_Witness ==
    /\ mode = "exported"
    /\ ObjKeys(data.members) \ ({"$bb_version"} \cup AllListed) # {}
    /\ AllListed \ ObjKeys(data.members) # {}
    /\ \E j \in 1..Len(secIndex) : \E a, b \in 1..Len(secIndex[j].keys) :
          a # b /\ secIndex[j].keys[a] = secIndex[j].keys[b]
    /\ KeyLines(OutLines) # {}

-----------------------------------------------------------------------------
(* Claims about formatKeyName and isChildSetting, checked under SpecKeys.  *)

\* the key as displayed: no leading `$`, a space for every `_`
Displayed(k) == ReplaceAll(StripSigil(k), "_", " ")

Alphanumeric == WordChars \ {"_"}

\* the text d with the letters at the positions in starts upper-cased
Capitalized(d, starts) ==
    /\ Len(helperResult) = Len(d)
    /\ \A i \in 1..Len(d) :
          CharAt(helperResult, i) = IF i \in starts THEN ToUpperCase(CharAt(d, i))
                                    ELSE CharAt(d, i)

\* C11 as stated: formatKeyName removes the leading `$`, puts a space for every
\* `_` and upper-cases the first letter of every word, a word starting only at
\* the start of the string or right after a space; nothing else changes.
C11_WordsAfterSpaces ==
    mode = "formatted" =>
        LET d == Displayed(keyArg)
        IN  Capitalized(d, {i \in 1..Len(d) : i = 1 \/ CharAt(d, i - 1) = " "})

\* C11 amended: the letters upper-cased are those at the start of the string
\* or right after a character that is no ASCII letter or digit.
C11_WordsAfterNonWord ==
    mode = "formatted" =>
        LET d == Displayed(keyArg)
        IN  Capitalized(d, {i \in 1..Len(d) : i = 1 \/ CharAt(d, i - 1) \notin Alphanumeric})

\* a key with a letter after a hyphen, upper-cased in the result
C11_Witness ==
    /\ mode = "formatted"
    /\ keyArg = "$a-a"
    /\ helperResult = "A-A"

\* the position of the n-th occurrence of c in s at or after i (0 if none)
RECURSIVE NthIndexOf(_, _, _, _)
NthIndexOf(s, c, i, n) ==
    LET p == IndexOf(s, c, i)
    IN  IF p = 0 \/ n = 1 THEN p ELSE NthIndexOf(s, c, p + 1, n - 1)

\* `$` and the first two `_`-delimited segments of the key without its leading `$`
CandidateParent(k) ==
    LET bare == IF Len(k) > 0 /\ CharAt(k, 1) = "$" THEN SubSeq(k, 2, Len(k)) ELSE k
        second == NthIndexOf(bare, "_", 1, 2)
    IN  "$" \o (IF second = 0 THEN bare ELSE SubSeq(bare, 1, second - 1))

\* C12: isChildSetting(key, allKeys) is a boolean, true exactly when the
\* candidate parent key is an element of allKeys and differs from key.
C12_ChildOfPresentParent ==
    mode = "classified" =>
        /\ helperResult \in BOOLEAN
        /\ helperResult <=> /\ CandidateParent(keyArg) # keyArg
                            /\ \E i \in 1..Len(allKeysArg) : allKeysArg[i] = CandidateParent(keyArg)

\* a key of three segments whose parent is listed
C12_Witness ==
    /\ mode = "classified"
    /\ keyArg = "$weapon_hud_offset"
    /\ allKeysArg = <<"$weapon_hud", "$weapon_hud_offset">>
    /\ helperResult = TRUE

\* C27: for a key that starts with `$` and any key list, a key that
\* isChildSetting takes for a child is a sub-setting for the serializer; the
\* two disagree only on sub-settings that are no children.
C27_ChildIsSubSetting ==
    (mode = "compared" /\ StartsWith(keyArg, "$")) =>
        (helperResult.isChildSetting => helperResult.isSubSetting)

\* a child that is a sub-setting, of three segments
C27_Witness ==
    /\ mode = "compared"
    /\ keyArg = "$weapon_hud_offset"
    /\ helperResult.isChildSetting
    /\ helperResult.isSubSetting

-----------------------------------------------------------------------------
(* Claims about BBConfigEditor, checked under SpecEditor.                  *)

\* C19: once a file is loaded, updateValue, handleReset, toggleSection, a
\* change of the search query and handleExport leave the sections state as it
\* is, the section index the parse returned; only a load that returns or
\* handleNewFile changes it.
C19_SectionsKept ==
    [][/\ (EditShownValue \/ handleReset \/ ToggleAnySection \/ ChangeSearchQuery
              \/ handleExport) => secIndex' = secIndex
       /\ secIndex' # secIndex => LoadReturned \/ handleNewFile
       /\ LoadReturned => secIndex' = parsed'.sections]_vars

\* a loaded file edited, searched, one section folded and exported, its
\* sections being those the parse returned
C19_Witness ==
    /\ Truthy(data)
    /\ parsed.kind = "returned"
    /\ secIndex = parsed.sections
    /\ secIndex # EmptyMap
    /\ data # originalData
    /\ searchQuery # ""
    /\ \E i \in 1..Len(secIndex) : secIndex[i].name \notin expandedSections
    /\ output # None

\* C20: when the load callback of a file runs and parseJsonWithComments
\* throws, error becomes the thrown message and data, sections, originalData
\* and fileName stay as they are.
C20_FailedLoadKeepsState ==
    [][LoadThrew =>
          /\ error' = JStr(parsed'.message)
          /\ StartsWith(parsed'.message, ErrorPrefix)
          /\ UNCHANGED <<data, secIndex, originalData, fileName>>]_vars

\* a load that threw while a loaded file was being edited
C20_Witness ==
    /\ parsed.kind = "thrown"
    /\ error = JStr(parsed.message)
    /\ Truthy(data)
    /\ fileName = "hud.json"
    /\ data # originalData

\* C21: whatever the number of reads in flight and the order in which their
\* onload callbacks run, error is non-null only while data is null.
C21_ErrorOnlyWithoutData ==
    error # Null => ~Truthy(data)

\* the file of the last load that returned, by the name the load stored
LoadedFile == CHOOSE file \in FilePool : file.name = fileName

\* the data the parse of the loaded file returns
LoadedData == parseJsonWithComments(LoadedFile.text).data

\* C22: from a load that returned to the next one or to handleNewFile,
\* updateValue never changes originalData, and handleReset, after any updates,
\* makes data deep-equal to the data the parse of the loaded file returned.
C22_ResetRestoresLoaded ==
    [][/\ EditShownValue => originalData' = originalData
       /\ handleReset => DeepEqual(data', LoadedData)]_vars

\* an edited value map was exported and the data is that of the file again
C22_Witness ==
    /\ Truthy(data)
    /\ output # None
    /\ output # serializeWithComments(data, secIndex)
    /\ data = originalData
    /\ DeepEqual(data, LoadedData)

====
